---- MODULE Spec2Model ----
(***************************************************************************)
(* A model of the design-pattern demonstration scripts: Prototype, Proxy,  *)
(* Observer, Simple Factory, Factory Method, Strategy and Singleton.  The  *)
(* scripts share nothing, so each has its own group of variables and its   *)
(* own specification; a specification leaves the other groups untouched.   *)
(* Objects live in heaps (sequences) and are referred to by their index,   *)
(* so that identity and aliasing are part of the model.                    *)
(***************************************************************************)
EXTENDS Integers, Sequences, FiniteSets

VARIABLES
    \* Prototype (src/unnamed/part_000)
    shapes,        \* heap of Shape objects, a reference is an index
    clones,        \* pairs <<s, c>>: c is what s.clone() returned
    protoPrev,     \* the heap before the last operation
    protoLast,     \* the last operation
    \* Proxy (src/unnamed/part_001)
    balance,       \* BankAccount.balance (used without proxy)
    bankLast,      \* the last call on the BankAccount
    realBalance,   \* RealBankAccount.balance behind the proxy
    proxyLast,     \* the last call on the BankAccountProxy
    pairValid,     \* both accounts driven by the same calls, all amounts valid
    \* Observer (src/observer.js)
    observers,     \* Subject.observers
    price,         \* StoreWithObserver.price
    delivered,     \* observers whose update() ran in the last notify, in order
    outstanding,   \* per observer: attach calls minus detach calls that found it
    detachedSince, \* per observer: detached after an attach and not attached since
    attachments,   \* the attachments still standing, oldest first
    obsPrev,       \* Subject.observers before the last call
    obsLast,       \* the last call on the subject
    \* Simple Factory (src/simple-factory.js)
    typeArg,       \* the argument handed to createAnimal
    factoryLast,   \* outcome of the createAnimal call
    \* Factory Method (src/factory-method.js)
    objects,       \* heap of constructed vehicles and factories (class names)
    fmLast,        \* the last operation
    \* Strategy (src/strategy.js)
    cashAmount,    \* CashStrategy.cashAmount
    cart,          \* ShoppingCart: paymentStrategy and amount
    openingCash,   \* the cashAmount the CashStrategy was constructed with
    negativePaid,  \* a negative amount was paid in cash at some point
    stratLast,     \* the last call
    \* Singleton (src/singleton.js)
    dbHeap,        \* heap of initialised Database objects
    dbInstance,    \* Database.instance: 0 is undefined, else a reference
    dbRefs,        \* what each getInstance() / new Database() evaluated to
    dbSeen,        \* every value Database.instance has held once set
    dbConnects,    \* connect() calls so far: 0, 1, or 2 for two and more
    dbPrev,        \* the heap before the last call
    dbLast         \* the last call

protoVars == <<shapes, clones, protoPrev, protoLast>>
bankVars == <<balance, bankLast>>
proxyVars == <<realBalance, proxyLast>>
pairVars == <<pairValid>>
obsVars == <<observers, price, delivered, outstanding, detachedSince, attachments,
            obsPrev, obsLast>>
factoryVars == <<typeArg, factoryLast>>
fmVars == <<objects, fmLast>>
stratVars == <<cashAmount, cart, openingCash, negativePaid, stratLast>>
dbVars == <<dbHeap, dbInstance, dbRefs, dbSeen, dbConnects, dbPrev, dbLast>>
vars == <<protoVars, bankVars, proxyVars, pairVars, obsVars, factoryVars, fmVars, stratVars, dbVars>>

restProto == <<bankVars, proxyVars, obsVars, factoryVars, fmVars, stratVars, dbVars, pairVars>>
restBank == <<protoVars, proxyVars, obsVars, factoryVars, fmVars, stratVars, dbVars, pairVars>>
restProxy == <<protoVars, bankVars, obsVars, factoryVars, fmVars, stratVars, dbVars, pairVars>>
restObs == <<protoVars, bankVars, proxyVars, factoryVars, fmVars, stratVars, dbVars, pairVars>>
restFactory == <<protoVars, bankVars, proxyVars, obsVars, fmVars, stratVars, dbVars, pairVars>>
restFm == <<protoVars, bankVars, proxyVars, obsVars, factoryVars, stratVars, dbVars, pairVars>>
restStrat == <<protoVars, bankVars, proxyVars, obsVars, factoryVars, fmVars, dbVars, pairVars>>
restPair == <<protoVars, obsVars, factoryVars, fmVars, stratVars, dbVars>>
restDb == <<protoVars, bankVars, proxyVars, obsVars, factoryVars, fmVars, stratVars, pairVars>>

NoError == "none"

(***************************************************************************)
(* Prototype                                                               *)
(***************************************************************************)
MaxShapes == 3

Sizes == {10, 30}
TypeNames == {"Rectangle", "Circle"}

\* new Rectangle(width, height)
Rectangle(width, height) ==
    [cls |-> "Rectangle", width |-> width, height |-> height, type |-> "Rectangle"]

\* new Circle(radius)
Circle(radius) ==
    [cls |-> "Circle", radius |-> radius, type |-> "Circle"]

\* Rectangle.clone(): a new object built from this.width and this.height
RectangleClone(heap, this) ==
    [heap |-> Append(heap, Rectangle(heap[this].width, heap[this].height)),
     ret |-> Len(heap) + 1]

\* Circle.clone(): a new object built from this.radius
CircleClone(heap, this) ==
    [heap |-> Append(heap, Circle(heap[this].radius)),
     ret |-> Len(heap) + 1]

\* s.clone(), dispatched on the class of s
ShapeClone(heap, this) ==
    IF heap[this].cls = "Rectangle" THEN RectangleClone(heap, this)
    ELSE CircleClone(heap, this)

\* the fields a class gives its objects
NumberFields(cls) == IF cls = "Rectangle" THEN {"width", "height"} ELSE {"radius"}

InitPrototype ==
    /\ shapes = <<>>
    /\ clones = {}
    /\ protoPrev = <<>>
    /\ protoLast = [op |-> "init", this |-> 0, ret |-> 0]

NewRectangle ==
    /\ Len(shapes) < MaxShapes
    /\ \E w \in Sizes, h \in Sizes :
          shapes' = Append(shapes, Rectangle(w, h))
    /\ protoPrev' = shapes
    /\ protoLast' = [op |-> "new", this |-> 0, ret |-> Len(shapes) + 1]
    /\ UNCHANGED clones
    /\ UNCHANGED restProto

NewCircle ==
    /\ Len(shapes) < MaxShapes
    /\ \E r \in Sizes : shapes' = Append(shapes, Circle(r))
    /\ protoPrev' = shapes
    /\ protoLast' = [op |-> "new", this |-> 0, ret |-> Len(shapes) + 1]
    /\ UNCHANGED clones
    /\ UNCHANGED restProto

Clone ==
    /\ Len(shapes) < MaxShapes
    /\ \E s \in 1..Len(shapes) :
          LET r == ShapeClone(shapes, s) IN
            /\ shapes' = r.heap
            /\ clones' = clones \cup {<<s, r.ret>>}
            /\ protoLast' = [op |-> "clone", this |-> s, ret |-> r.ret]
    /\ protoPrev' = shapes
    /\ UNCHANGED restProto

\* obj.width = v, obj.height = v, obj.radius = v
AssignNumber ==
    /\ \E s \in 1..Len(shapes) :
          \E f \in NumberFields(shapes[s].cls), v \in Sizes :
            /\ shapes' = [shapes EXCEPT ![s] = [@ EXCEPT ![f] = v]]
            /\ protoLast' = [op |-> "assign", this |-> s, ret |-> 0]
    /\ protoPrev' = shapes
    /\ UNCHANGED clones
    /\ UNCHANGED restProto

\* obj.type = v
AssignType ==
    /\ \E s \in 1..Len(shapes) :
          \E v \in TypeNames :
            /\ shapes' = [shapes EXCEPT ![s] = [@ EXCEPT !.type = v]]
            /\ protoLast' = [op |-> "assign", this |-> s, ret |-> 0]
    /\ protoPrev' = shapes
    /\ UNCHANGED clones
    /\ UNCHANGED restProto

(***************************************************************************)
(* Proxy: BankAccount without a proxy, RealBankAccount behind the proxy    *)
(***************************************************************************)
MaxBalance == 2000
WithdrawLimit == 1000

Amounts == {-50, 0, 50, 70, 100, 1000, 1001, 1500}
OpeningBalances == {0, 100}

InRange(b) == -MaxBalance <= b /\ b <= MaxBalance

\* BankAccount.deposit(amount)
BankAccountDeposit(bal, amount) == bal + amount

\* BankAccount.withdraw(amount)
BankAccountWithdraw(bal, amount) ==
    IF amount <= bal
    THEN [balance |-> bal - amount, log |-> "Withdrawn"]
    ELSE [balance |-> bal, log |-> "Insufficient funds!"]

InitBank ==
    /\ balance \in OpeningBalances
    /\ bankLast = [op |-> "init", amount |-> 0, before |-> 0, log |-> "none"]

BankDeposit ==
    /\ \E amount \in Amounts :
         /\ InRange(BankAccountDeposit(balance, amount))
         /\ balance' = BankAccountDeposit(balance, amount)
         /\ bankLast' = [op |-> "deposit", amount |-> amount, before |-> balance,
                         log |-> "Deposited"]
    /\ UNCHANGED restBank

BankWithdraw ==
    /\ \E amount \in Amounts :
         LET r == BankAccountWithdraw(balance, amount) IN
           /\ InRange(r.balance)
           /\ balance' = r.balance
           /\ bankLast' = [op |-> "withdraw", amount |-> amount, before |-> balance,
                           log |-> r.log]
    /\ UNCHANGED restBank

\* RealBankAccount.deposit(amount)
RealDeposit(bal, amount) == bal + amount

\* RealBankAccount.withdraw(amount): a variant without the balance check
RealWithdrawUnchecked(bal, amount) == [balance |-> bal - amount, ret |-> TRUE]

\* RealBankAccount.withdraw(amount)
RealWithdraw(bal, amount) ==
    IF amount <= bal
    THEN [balance |-> bal - amount, ret |-> TRUE]
    ELSE [balance |-> bal, ret |-> FALSE]

\* BankAccountProxy.validateTransaction(amount): a variant that accepts everything
ValidateTransactionAlways(amount) ==
    [ok |-> TRUE, log |-> "none"]

\* BankAccountProxy.validateTransaction(amount)
ValidateTransaction(amount) ==
    IF amount <= 0
    THEN [ok |-> FALSE, log |-> "Proxy: Invalid amount"]
    ELSE [ok |-> TRUE, log |-> "none"]

\* BankAccountProxy.deposit(amount)
ProxyDepositCall(bal, amount) ==
    LET v == ValidateTransaction(amount) IN
      IF v.ok
      THEN [balance |-> RealDeposit(bal, amount), called |-> TRUE, carried |-> TRUE,
            thrown |-> NoError, log |-> "Proxy: Logging deposit transaction"]
      ELSE [balance |-> bal, called |-> FALSE, carried |-> FALSE,
            thrown |-> NoError, log |-> v.log]

\* BankAccountProxy.withdraw(amount): a variant without the limit check
ProxyWithdrawNoLimit(bal, amount) ==
    LET v == ValidateTransaction(amount) IN
      IF v.ok
      THEN LET r == RealWithdraw(bal, amount) IN
             [balance |-> r.balance, called |-> TRUE, carried |-> r.ret,
              thrown |-> NoError,
              log |-> IF r.ret THEN "Withdrawn" ELSE "Proxy: Insufficient funds!"]
      ELSE [balance |-> bal, called |-> FALSE, carried |-> FALSE,
            thrown |-> NoError, log |-> v.log]

\* BankAccountProxy.withdraw(amount) with `amount >= 1000` for the limit test
ProxyWithdrawLimitInclusive(bal, amount) ==
    LET v == ValidateTransaction(amount) IN
      IF v.ok
      THEN IF amount >= WithdrawLimit
           THEN [balance |-> bal, called |-> FALSE, carried |-> FALSE,
                 thrown |-> NoError,
                 log |-> "Proxy: Cannot withdraw more than 1000 at once"]
           ELSE LET r == RealWithdraw(bal, amount) IN
                  [balance |-> r.balance, called |-> TRUE, carried |-> r.ret,
                   thrown |-> NoError,
                   log |-> IF r.ret THEN "Withdrawn"
                           ELSE "Proxy: Insufficient funds!"]
      ELSE [balance |-> bal, called |-> FALSE, carried |-> FALSE,
            thrown |-> NoError, log |-> v.log]

\* BankAccountProxy.withdraw(amount)
ProxyWithdrawCall(bal, amount) ==
    LET v == ValidateTransaction(amount) IN
      IF v.ok
      THEN IF amount > WithdrawLimit
           THEN [balance |-> bal, called |-> FALSE, carried |-> FALSE,
                 thrown |-> NoError,
                 log |-> "Proxy: Cannot withdraw more than 1000 at once"]
           ELSE LET r == RealWithdraw(bal, amount) IN
                  [balance |-> r.balance, called |-> TRUE, carried |-> r.ret,
                   thrown |-> NoError,
                   log |-> IF r.ret THEN "Withdrawn"
                           ELSE "Proxy: Insufficient funds!"]
      ELSE [balance |-> bal, called |-> FALSE, carried |-> FALSE,
            thrown |-> NoError, log |-> v.log]

InitProxy ==
    /\ realBalance \in OpeningBalances
    /\ proxyLast = [op |-> "init", amount |-> 0, before |-> 0, called |-> FALSE,
                    carried |-> FALSE, thrown |-> NoError, log |-> "none"]

ProxyDeposit ==
    /\ \E amount \in Amounts :
         LET r == ProxyDepositCall(realBalance, amount) IN
           /\ InRange(r.balance)
           /\ realBalance' = r.balance
           /\ proxyLast' = [op |-> "deposit", amount |-> amount, before |-> realBalance,
                            called |-> r.called, carried |-> r.carried,
                            thrown |-> r.thrown, log |-> r.log]
    /\ UNCHANGED restProxy

ProxyWithdraw ==
    /\ \E amount \in Amounts :
         LET r == ProxyWithdrawCall(realBalance, amount) IN
           /\ InRange(r.balance)
           /\ realBalance' = r.balance
           /\ proxyLast' = [op |-> "withdraw", amount |-> amount, before |-> realBalance,
                            called |-> r.called, carried |-> r.carried,
                            thrown |-> r.thrown, log |-> r.log]
    /\ UNCHANGED restProxy

\* the same calls made on a BankAccount and on a BankAccountProxy, up to the
\* first call with an amount outside 0 < amount <= 1000
ValidAmount(amount) == 0 < amount /\ amount <= 1000

InitPair == pairValid = TRUE

PairDeposit ==
    /\ pairValid
    /\ \E amount \in Amounts :
         LET b == BankAccountDeposit(balance, amount)
             r == ProxyDepositCall(realBalance, amount)
         IN /\ InRange(b) /\ InRange(r.balance)
            /\ balance' = b
            /\ bankLast' = [op |-> "deposit", amount |-> amount, before |-> balance,
                            log |-> "Deposited"]
            /\ realBalance' = r.balance
            /\ proxyLast' = [op |-> "deposit", amount |-> amount,
                             before |-> realBalance, called |-> r.called,
                             carried |-> r.carried, thrown |-> r.thrown,
                             log |-> r.log]
            /\ pairValid' = ValidAmount(amount)
    /\ UNCHANGED restPair

PairWithdraw ==
    /\ pairValid
    /\ \E amount \in Amounts :
         LET b == BankAccountWithdraw(balance, amount)
             r == ProxyWithdrawCall(realBalance, amount)
         IN /\ InRange(b.balance) /\ InRange(r.balance)
            /\ balance' = b.balance
            /\ bankLast' = [op |-> "withdraw", amount |-> amount, before |-> balance,
                            log |-> b.log]
            /\ realBalance' = r.balance
            /\ proxyLast' = [op |-> "withdraw", amount |-> amount,
                             before |-> realBalance, called |-> r.called,
                             carried |-> r.carried, thrown |-> r.thrown,
                             log |-> r.log]
            /\ pairValid' = ValidAmount(amount)
    /\ UNCHANGED restPair

(***************************************************************************)
(* Observer                                                                *)
(***************************************************************************)
MaxObservers == 4

ObserverSet == {"email", "sms", "app"}
Prices == {100, 200}

\* Array.prototype.indexOf: zero-based index of the first occurrence, or -1
IndexOf(list, o) ==
    IF \E i \in 1..Len(list) : list[i] = o
    THEN (CHOOSE i \in 1..Len(list) :
            list[i] = o /\ \A j \in 1..(i - 1) : list[j] # o) - 1
    ELSE -1

\* Array.prototype.splice(index, 1): drop the entry at a zero-based index
Splice1(list, index) ==
    SubSeq(list, 1, index) \o SubSeq(list, index + 2, Len(list))

\* Subject.attach(observer)
SubjectAttach(list, o) == Append(list, o)

\* Subject.detach(observer) with slice(index, 1) for splice(index, 1): slice
\* copies and leaves this.observers as it was
SubjectDetachSlice(list, o) == list

\* Subject.detach(observer) without the `index > -1` test: splice(-1, 1)
\* removes the last entry
SubjectDetachNoGuard(list, o) ==
    LET index == IndexOf(list, o) IN
      IF index > -1 THEN Splice1(list, index)
      ELSE SubSeq(list, 1, Len(list) - 1)

\* Subject.detach(observer)
SubjectDetach(list, o) ==
    LET index == IndexOf(list, o) IN
      IF index > -1 THEN Splice1(list, index) ELSE list

\* Subject.notify(data) iterating from the last observer to the first
SubjectNotifyReversed(list, data) ==
    [i \in 1..Len(list) |-> [who |-> list[Len(list) + 1 - i], data |-> data]]

\* Subject.notify(data): the update(data) calls made, in order
SubjectNotify(list, data) ==
    [i \in 1..Len(list) |-> [who |-> list[i], data |-> data]]

Notified(o) == \E i \in 1..Len(delivered) : delivered[i].who = o

\* the standing attachments once the oldest attachment of o is withdrawn
WithoutOldest(log, o) ==
    IF \A i \in 1..Len(log) : log[i] # o THEN log
    ELSE LET k == CHOOSE i \in 1..Len(log) :
                    log[i] = o /\ \A j \in 1..Len(log) : log[j] = o => i <= j
         IN [i \in 1..(Len(log) - 1) |-> IF i < k THEN log[i] ELSE log[i + 1]]

InitObserver ==
    /\ observers = <<>>
    /\ price = 0
    /\ delivered = <<>>
    /\ outstanding = [o \in ObserverSet |-> 0]
    /\ detachedSince = [o \in ObserverSet |-> FALSE]
    /\ attachments = <<>>
    /\ obsPrev = <<>>
    /\ obsLast = [op |-> "init", who |-> "none", data |-> 0]

Attach ==
    /\ Len(observers) < MaxObservers
    /\ \E o \in ObserverSet :
          /\ observers' = SubjectAttach(observers, o)
          /\ outstanding' = [outstanding EXCEPT ![o] = @ + 1]
          /\ detachedSince' = [detachedSince EXCEPT ![o] = FALSE]
          /\ attachments' = attachments \o <<o>>
          /\ obsLast' = [op |-> "attach", who |-> o, data |-> 0]
    /\ obsPrev' = observers
    /\ delivered' = <<>>
    /\ UNCHANGED price
    /\ UNCHANGED restObs

Detach ==
    /\ \E o \in ObserverSet :
          /\ observers' = SubjectDetach(observers, o)
          /\ outstanding' = [outstanding EXCEPT ![o] = IF @ > 0 THEN @ - 1 ELSE @]
          /\ detachedSince' = [detachedSince EXCEPT ![o] = @ \/ outstanding[o] > 0]
          /\ attachments' = WithoutOldest(attachments, o)
          /\ obsLast' = [op |-> "detach", who |-> o, data |-> 0]
    /\ obsPrev' = observers
    /\ delivered' = <<>>
    /\ UNCHANGED price
    /\ UNCHANGED restObs

Notify ==
    /\ \E data \in Prices :
          /\ delivered' = SubjectNotify(observers, data)
          /\ obsLast' = [op |-> "notify", who |-> "none", data |-> data]
    /\ obsPrev' = observers
    /\ UNCHANGED <<observers, price, outstanding, detachedSince, attachments>>
    /\ UNCHANGED restObs

\* StoreWithObserver.setPrice(price)
SetPrice ==
    /\ \E p \in Prices :
          /\ price' = p
          /\ delivered' = SubjectNotify(observers, p)
          /\ obsLast' = [op |-> "setPrice", who |-> "none", data |-> p]
    /\ obsPrev' = observers
    /\ UNCHANGED <<observers, outstanding, detachedSince, attachments>>
    /\ UNCHANGED restObs

(***************************************************************************)
(* Simple Factory                                                          *)
(***************************************************************************)
MaxTypeLen == 3

Chars == {"d", "o", "g", "c", "a", "t", "D", "O", "G", "C", "A", "T", "b"}

\* String.prototype.toLowerCase on one character
LowerChar(c) ==
    CASE c = "D" -> "d"
      [] c = "O" -> "o"
      [] c = "G" -> "g"
      [] c = "C" -> "c"
      [] c = "A" -> "a"
      [] c = "T" -> "t"
      [] OTHER -> c

\* String.prototype.toLowerCase
ToLowerCase(str) == [i \in 1..Len(str) |-> LowerChar(str[i])]

TypeStrings == UNION {[1..n -> Chars] : n \in 0..MaxTypeLen}

\* AnimalFactory.createAnimal(type): a variant without toLowerCase()
CreateAnimalCaseSensitive(type) ==
    CASE type = <<"d", "o", "g">> -> [thrown |-> NoError, product |-> "Dog"]
      [] type = <<"c", "a", "t">> -> [thrown |-> NoError, product |-> "Cat"]
      [] OTHER -> [thrown |-> "Animal type not supported", product |-> "none"]

\* AnimalFactory.createAnimal(type)
CreateAnimal(type) ==
    LET t == ToLowerCase(type) IN
      CASE t = <<"d", "o", "g">> -> [thrown |-> NoError, product |-> "Dog"]
        [] t = <<"c", "a", "t">> -> [thrown |-> NoError, product |-> "Cat"]
        [] OTHER -> [thrown |-> "Animal type not supported", product |-> "none"]

\* Dog.makeSound / Cat.makeSound
MakeSound(product) == IF product = "Dog" THEN "Woof!" ELSE "Meow!"

InitFactory ==
    /\ typeArg \in TypeStrings
    /\ factoryLast = [op |-> "init", thrown |-> NoError, product |-> "none",
                      sound |-> "none"]

CallCreateAnimal ==
    /\ factoryLast.op = "init"
    /\ LET r == CreateAnimal(typeArg) IN
         factoryLast' = [op |-> "createAnimal", thrown |-> r.thrown,
                         product |-> r.product, sound |-> "none"]
    /\ UNCHANGED typeArg
    /\ UNCHANGED restFactory

CallMakeSound ==
    /\ factoryLast.op = "createAnimal"
    /\ factoryLast.thrown = NoError
    /\ factoryLast' = [factoryLast EXCEPT !.op = "makeSound",
                                          !.sound = MakeSound(factoryLast.product)]
    /\ UNCHANGED typeArg
    /\ UNCHANGED restFactory

(***************************************************************************)
(* Factory Method                                                          *)
(***************************************************************************)
MaxObjects == 3

VehicleClasses == {"Vehicle", "Car", "Bike"}
FactoryClasses == {"VehicleFactory", "CarFactory", "BikeFactory"}
Classes == VehicleClasses \cup FactoryClasses
AbstractError == "Abstract class cannot be instantiated"

\* Vehicle constructor with `this instanceof Vehicle` for the constructor test
VehicleConstructorInstanceOf(cls) ==
    IF cls \in VehicleClasses THEN AbstractError ELSE NoError

\* Vehicle constructor, run for Vehicle and (through the implicit super()) for
\* Car and Bike: this.constructor is the class named after `new`
VehicleConstructor(cls) ==
    IF cls = "Vehicle" THEN AbstractError ELSE NoError

\* VehicleFactory constructor, run for VehicleFactory, CarFactory, BikeFactory
VehicleFactoryConstructor(cls) ==
    IF cls = "VehicleFactory" THEN AbstractError ELSE NoError

\* new cls(): what the constructor chain throws
Construct(cls) ==
    IF cls \in VehicleClasses THEN VehicleConstructor(cls)
    ELSE VehicleFactoryConstructor(cls)

\* getType() of an object of class cls
GetType(cls) ==
    CASE cls = "Car" -> [thrown |-> NoError, ret |-> "Car"]
      [] cls = "Bike" -> [thrown |-> NoError, ret |-> "Bike"]
      [] OTHER -> [thrown |-> "getType() method must be implemented", ret |-> "none"]

\* createVehicle() of a factory of class cls: the class it instantiates
CreateVehicle(cls) ==
    CASE cls = "CarFactory" -> [thrown |-> NoError, product |-> "Car"]
      [] cls = "BikeFactory" -> [thrown |-> NoError, product |-> "Bike"]
      [] OTHER -> [thrown |-> "createVehicle() method must be implemented",
                   product |-> "none"]

InitFactoryMethod ==
    /\ objects = <<>>
    /\ fmLast = [op |-> "init", cls |-> "none", thrown |-> NoError, ret |-> 0,
                 type |-> "none"]

New ==
    /\ Len(objects) < MaxObjects
    /\ \E cls \in Classes :
          LET thrown == Construct(cls) IN
            /\ objects' = IF thrown = NoError THEN Append(objects, cls) ELSE objects
            /\ fmLast' = [op |-> "new", cls |-> cls, thrown |-> thrown,
                          ret |-> IF thrown = NoError THEN Len(objects) + 1 ELSE 0,
                          type |-> "none"]
    /\ UNCHANGED restFm

CallCreateVehicle ==
    /\ Len(objects) < MaxObjects
    /\ \E f \in 1..Len(objects) :
          /\ objects[f] \in FactoryClasses
          /\ LET c == CreateVehicle(objects[f])
                 thrown == IF c.thrown = NoError THEN Construct(c.product)
                           ELSE c.thrown
             IN /\ objects' = IF thrown = NoError THEN Append(objects, c.product)
                              ELSE objects
                /\ fmLast' = [op |-> "createVehicle", cls |-> objects[f],
                              thrown |-> thrown,
                              ret |-> IF thrown = NoError THEN Len(objects) + 1 ELSE 0,
                              type |-> "none"]
    /\ UNCHANGED restFm

CallGetType ==
    /\ \E v \in 1..Len(objects) :
          /\ objects[v] \in VehicleClasses
          /\ LET r == GetType(objects[v]) IN
               fmLast' = [op |-> "getType", cls |-> objects[v], thrown |-> r.thrown,
                          ret |-> v, type |-> r.ret]
    /\ UNCHANGED objects
    /\ UNCHANGED restFm

(***************************************************************************)
(* Strategy                                                                *)
(***************************************************************************)
MaxCash == 700

Strategies == {"creditCard", "paypal", "cash"}
CartAmounts == {-100, 0, 100, 200, 300, 400}
OpeningCash == {-100, 0, 500}

InCashRange(c) == -MaxCash <= c /\ c <= MaxCash
InsufficientCash == "Insufficient cash amount"

\* CashStrategy.pay(amount) without the cashAmount check
CashPayUnchecked(cash, amount) ==
    [cash |-> cash - amount, thrown |-> NoError]

\* CashStrategy.pay(amount)
CashPay(cash, amount) ==
    IF amount > cash
    THEN [cash |-> cash, thrown |-> InsufficientCash]
    ELSE [cash |-> cash - amount, thrown |-> NoError]

\* paymentStrategy.pay(amount): CreditCardStrategy and PayPalStrategy only log
StrategyPay(strategy, cash, amount) ==
    IF strategy = "cash" THEN CashPay(cash, amount)
    ELSE [cash |-> cash, thrown |-> NoError]

\* ShoppingCart.checkout(): no try/catch, the outcome of pay() is its outcome
Checkout(c, cash) == StrategyPay(c.paymentStrategy, cash, c.amount)

InitStrategy ==
    /\ cashAmount \in OpeningCash
    /\ openingCash = cashAmount
    /\ \E s \in Strategies : cart = [paymentStrategy |-> s, amount |-> 0]
    /\ negativePaid = FALSE
    /\ stratLast = [op |-> "init", strategy |-> "none", amount |-> 0, before |-> 0,
                    thrown |-> NoError]

SetPaymentStrategy ==
    /\ \E s \in Strategies : cart' = [cart EXCEPT !.paymentStrategy = s]
    /\ stratLast' = [op |-> "setPaymentStrategy", strategy |-> "none", amount |-> 0,
                     before |-> cashAmount, thrown |-> NoError]
    /\ UNCHANGED <<cashAmount, openingCash, negativePaid>>
    /\ UNCHANGED restStrat

SetAmount ==
    /\ \E a \in CartAmounts : cart' = [cart EXCEPT !.amount = a]
    /\ stratLast' = [op |-> "setAmount", strategy |-> "none", amount |-> 0,
                     before |-> cashAmount, thrown |-> NoError]
    /\ UNCHANGED <<cashAmount, openingCash, negativePaid>>
    /\ UNCHANGED restStrat

CartCheckout ==
    /\ LET r == Checkout(cart, cashAmount) IN
         /\ InCashRange(r.cash)
         /\ cashAmount' = r.cash
         /\ negativePaid' = (negativePaid \/
                (cart.paymentStrategy = "cash" /\ cart.amount < 0))
         /\ stratLast' = [op |-> "checkout", strategy |-> cart.paymentStrategy,
                          amount |-> cart.amount, before |-> cashAmount,
                          thrown |-> r.thrown]
    /\ UNCHANGED <<cart, openingCash>>
    /\ UNCHANGED restStrat

\* cashStrategy.pay(amount) called directly
DirectCashPay ==
    /\ \E a \in CartAmounts :
          LET r == CashPay(cashAmount, a) IN
            /\ InCashRange(r.cash)
            /\ cashAmount' = r.cash
            /\ negativePaid' = (negativePaid \/ a < 0)
            /\ stratLast' = [op |-> "pay", strategy |-> "cash", amount |-> a,
                             before |-> cashAmount, thrown |-> r.thrown]
    /\ UNCHANGED <<cart, openingCash>>
    /\ UNCHANGED restStrat

(***************************************************************************)
(* Singleton                                                               *)
(***************************************************************************)
MaxRefs == 4

Undefined == 0
ConnectionString == "mongodb://localhost:27017/mydb"
NotConnected == "Must connect to database first"

\* Database constructor without the `if (Database.instance)` early return
DatabaseConstructorNoGuard(heap, instance) ==
    LET this == Len(heap) + 1 IN
      [heap |-> Append(heap, [connectionString |-> ConnectionString,
                              connected |-> FALSE]),
       instance |-> this, ret |-> this]

\* new Database(): a constructor that returns an object yields that object
DatabaseConstructor(heap, instance) ==
    IF instance # Undefined
    THEN [heap |-> heap, instance |-> instance, ret |-> instance]
    ELSE LET this == Len(heap) + 1 IN
           [heap |-> Append(heap, [connectionString |-> ConnectionString,
                                   connected |-> FALSE]),
            instance |-> this, ret |-> this]

\* Database.getInstance()
GetInstance(heap, instance) ==
    IF instance = Undefined
    THEN LET r == DatabaseConstructor(heap, instance) IN
           [heap |-> r.heap, instance |-> r.ret, ret |-> r.ret]
    ELSE [heap |-> heap, instance |-> instance, ret |-> instance]

\* Database.connect()
Connect(heap, this) ==
    IF heap[this].connected
    THEN [heap |-> heap, log |-> "Already connected to database"]
    ELSE [heap |-> [heap EXCEPT ![this].connected = TRUE],
          log |-> "Connecting to database"]

\* Database.query(sql) without the `if (!this.connected)` test
QueryUnchecked(heap, this) ==
    [thrown |-> NoError, log |-> "Executing query"]

\* Database.query(sql)
Query(heap, this) ==
    IF ~heap[this].connected
    THEN [thrown |-> NotConnected, log |-> "none"]
    ELSE [thrown |-> NoError, log |-> "Executing query"]

Seen(instance) == IF instance = Undefined THEN {} ELSE {instance}

InitSingleton ==
    /\ dbHeap = <<>>
    /\ dbInstance = Undefined
    /\ dbRefs = <<>>
    /\ dbSeen = {}
    /\ dbConnects = 0
    /\ dbPrev = <<>>
    /\ dbLast = [op |-> "init", ref |-> 0, thrown |-> NoError, log |-> "none"]

CallGetInstance ==
    /\ Len(dbRefs) < MaxRefs
    /\ LET r == GetInstance(dbHeap, dbInstance) IN
         /\ dbHeap' = r.heap
         /\ dbInstance' = r.instance
         /\ dbSeen' = dbSeen \cup Seen(r.instance)
         /\ dbRefs' = Append(dbRefs, [via |-> "getInstance", obj |-> r.ret])
         /\ dbLast' = [op |-> "getInstance", ref |-> r.ret, thrown |-> NoError,
                       log |-> "none"]
    /\ dbPrev' = dbHeap
    /\ UNCHANGED dbConnects
    /\ UNCHANGED restDb

NewDatabase ==
    /\ Len(dbRefs) < MaxRefs
    /\ LET r == DatabaseConstructor(dbHeap, dbInstance) IN
         /\ dbHeap' = r.heap
         /\ dbInstance' = r.instance
         /\ dbSeen' = dbSeen \cup Seen(r.instance)
         /\ dbRefs' = Append(dbRefs, [via |-> "new", obj |-> r.ret])
         /\ dbLast' = [op |-> "new", ref |-> r.ret, thrown |-> NoError,
                       log |-> "none"]
    /\ dbPrev' = dbHeap
    /\ UNCHANGED dbConnects
    /\ UNCHANGED restDb

CallConnect ==
    /\ \E i \in 1..Len(dbRefs) :
          LET r == Connect(dbHeap, dbRefs[i].obj) IN
            /\ dbHeap' = r.heap
            /\ dbLast' = [op |-> "connect", ref |-> i, thrown |-> NoError,
                          log |-> r.log]
    /\ dbConnects' = IF dbConnects = 0 THEN 1 ELSE 2
    /\ dbPrev' = dbHeap
    /\ UNCHANGED <<dbInstance, dbRefs, dbSeen>>
    /\ UNCHANGED restDb

CallQuery ==
    /\ \E i \in 1..Len(dbRefs) :
          LET r == Query(dbHeap, dbRefs[i].obj) IN
            dbLast' = [op |-> "query", ref |-> i, thrown |-> r.thrown,
                       log |-> r.log]
    /\ dbPrev' = dbHeap
    /\ UNCHANGED <<dbHeap, dbInstance, dbRefs, dbSeen, dbConnects>>
    /\ UNCHANGED restDb

(***************************************************************************)
(* Specifications: one per script; the other scripts' objects stay as      *)
(* first constructed.                                                      *)
(***************************************************************************)
ParkedPrototype == InitPrototype
ParkedBank == InitBank /\ balance = 100
ParkedProxy == InitProxy /\ realBalance = 100
ParkedPair == InitPair
ParkedObserver == InitObserver
ParkedFactory == InitFactory /\ typeArg = <<"d", "o", "g">>
ParkedFactoryMethod == InitFactoryMethod
ParkedStrategy == InitStrategy /\ cashAmount = 500 /\ cart.paymentStrategy = "creditCard"
ParkedSingleton == InitSingleton

NextPrototype == NewRectangle \/ NewCircle \/ Clone \/ AssignNumber \/ AssignType
NextBank == BankDeposit \/ BankWithdraw
NextProxy == ProxyDeposit \/ ProxyWithdraw
NextPair == PairDeposit \/ PairWithdraw
NextObserver == Attach \/ Detach \/ Notify \/ SetPrice
NextFactory == CallCreateAnimal \/ CallMakeSound
NextFactoryMethod == New \/ CallCreateVehicle \/ CallGetType
NextStrategy == SetPaymentStrategy \/ SetAmount \/ CartCheckout \/ DirectCashPay
NextSingleton == CallGetInstance \/ NewDatabase \/ CallConnect \/ CallQuery

StartPrototype ==
    /\ ParkedPair /\ InitPrototype /\ ParkedBank /\ ParkedProxy
    /\ ParkedObserver /\ ParkedFactory
    /\ ParkedFactoryMethod /\ ParkedStrategy /\ ParkedSingleton

SpecPrototype == StartPrototype /\ [][NextPrototype]_vars

StartBank ==
    /\ ParkedPair /\ ParkedPrototype /\ InitBank /\ ParkedProxy
    /\ ParkedObserver /\ ParkedFactory
    /\ ParkedFactoryMethod /\ ParkedStrategy /\ ParkedSingleton

SpecBank == StartBank /\ [][NextBank]_vars

StartProxy ==
    /\ ParkedPair /\ ParkedPrototype /\ ParkedBank /\ InitProxy
    /\ ParkedObserver /\ ParkedFactory
    /\ ParkedFactoryMethod /\ ParkedStrategy /\ ParkedSingleton

SpecProxy == StartProxy /\ [][NextProxy]_vars

StartPair ==
    /\ ParkedPair /\ ParkedPrototype /\ InitBank /\ InitProxy /\ realBalance = balance
    /\ ParkedObserver /\ ParkedFactory
    /\ ParkedFactoryMethod /\ ParkedStrategy /\ ParkedSingleton

SpecPair == StartPair /\ [][NextPair]_vars

StartObserver ==
    /\ ParkedPair /\ ParkedPrototype /\ ParkedBank /\ ParkedProxy /\ InitObserver /\ ParkedFactory
    /\ ParkedFactoryMethod /\ ParkedStrategy /\ ParkedSingleton

SpecObserver == StartObserver /\ [][NextObserver]_vars

StartFactory ==
    /\ ParkedPair /\ ParkedPrototype /\ ParkedBank /\ ParkedProxy /\ ParkedObserver /\ InitFactory
    /\ ParkedFactoryMethod /\ ParkedStrategy /\ ParkedSingleton

SpecFactory == StartFactory /\ [][NextFactory]_vars

StartFactoryMethod ==
    /\ ParkedPair /\ ParkedPrototype /\ ParkedBank /\ ParkedProxy
    /\ ParkedObserver /\ ParkedFactory
    /\ InitFactoryMethod /\ ParkedStrategy /\ ParkedSingleton

SpecFactoryMethod == StartFactoryMethod /\ [][NextFactoryMethod]_vars

StartStrategy ==
    /\ ParkedPair /\ ParkedPrototype /\ ParkedBank /\ ParkedProxy
    /\ ParkedObserver /\ ParkedFactory
    /\ ParkedFactoryMethod /\ InitStrategy /\ ParkedSingleton

SpecStrategy == StartStrategy /\ [][NextStrategy]_vars

StartSingleton ==
    /\ ParkedPair /\ ParkedPrototype /\ ParkedBank /\ ParkedProxy
    /\ ParkedObserver /\ ParkedFactory
    /\ ParkedFactoryMethod /\ ParkedStrategy /\ InitSingleton

SpecSingleton == StartSingleton /\ [][NextSingleton]_vars

(***************************************************************************)
(* Properties                                                              *)
(***************************************************************************)

\* C1: s.clone() returns a distinct object of the class of s whose fields equal
\* those of s; afterwards an assignment to a field of the clone leaves s as it
\* was, and an assignment to a field of s leaves the clone as it was.
C1_CloneEqualAndIndependent ==
    /\ protoLast.op = "clone" =>
          /\ protoLast.ret # protoLast.this
          /\ shapes[protoLast.ret].cls = shapes[protoLast.this].cls
          /\ shapes[protoLast.ret] = shapes[protoLast.this]
    /\ protoLast.op = "assign" =>
          \A p \in clones :
            /\ p[2] = protoLast.this => shapes[p[1]] = protoPrev[p[1]]
            /\ p[1] = protoLast.this => shapes[p[2]] = protoPrev[p[2]]

ObsNotifying == obsLast.op \in {"notify", "setPrice"}

\* C2 as stated: once detach(o) was called after o was attached, and o was not
\* attached again, no notify invokes o.update.
C2_DetachStopsNotifications ==
    ObsNotifying => \A o \in ObserverSet : detachedSince[o] => ~Notified(o)

\* C2 amended: once o was detached after an attach, not attached again, and the
\* detach calls that found o are as many as its attach calls, no notify invokes
\* o.update.
C2_NoAttachmentLeftNoNotification ==
    ObsNotifying =>
      \A o \in ObserverSet :
        (detachedSince[o] /\ outstanding[o] = 0) => ~Notified(o)

\* the driver: email, sms and app attached, sms detached, setPrice(200)
C2_Witness ==
    /\ obsLast.op = "setPrice"
    /\ detachedSince["sms"] /\ outstanding["sms"] = 0
    /\ Notified("email") /\ Notified("app")

\* C3: BankAccountProxy.withdraw(amount) with amount above the limit of 1000
\* does not call RealBankAccount.withdraw and leaves the balance unchanged,
\* whatever the balance.
C3_OverLimitRejected ==
    (proxyLast.op = "withdraw" /\ proxyLast.amount > WithdrawLimit) =>
      /\ ~proxyLast.called
      /\ realBalance = proxyLast.before

\* a withdrawal above the limit that the balance would have covered
C3_Witness ==
    /\ proxyLast.op = "withdraw"
    /\ proxyLast.amount > WithdrawLimit
    /\ proxyLast.before >= proxyLast.amount

UpperChar(c) ==
    CASE c = "d" -> "D"
      [] c = "o" -> "O"
      [] c = "g" -> "G"
      [] c = "c" -> "C"
      [] c = "a" -> "A"
      [] c = "t" -> "T"
      [] OTHER -> c

CaseVariant(str, word) ==
    /\ Len(str) = Len(word)
    /\ \A i \in 1..Len(word) : str[i] \in {word[i], UpperChar(word[i])}

\* C4: createAnimal(type) returns a Dog for every case variant of "dog", a Cat
\* for every case variant of "cat", and for every other string throws
\* "Animal type not supported" and returns no product.
C4_CreateAnimalByType ==
    factoryLast.op = "createAnimal" =>
      /\ CaseVariant(typeArg, <<"d", "o", "g">>) =>
            factoryLast.thrown = NoError /\ factoryLast.product = "Dog"
      /\ CaseVariant(typeArg, <<"c", "a", "t">>) =>
            factoryLast.thrown = NoError /\ factoryLast.product = "Cat"
      /\ (~CaseVariant(typeArg, <<"d", "o", "g">>)
          /\ ~CaseVariant(typeArg, <<"c", "a", "t">>)) =>
            /\ factoryLast.thrown = "Animal type not supported"
            /\ factoryLast.product = "none"

C4_Witness ==
    /\ factoryLast.op = "createAnimal"
    /\ typeArg = <<"D", "o", "G">>
    /\ factoryLast.product = "Dog"

\* C5: new Vehicle() and new VehicleFactory() throw "Abstract class cannot be
\* instantiated"; constructing Car, Bike, CarFactory or BikeFactory never
\* throws; CarFactory.createVehicle() yields a vehicle whose getType() is "Car"
\* and BikeFactory.createVehicle() one whose getType() is "Bike".
C5_AbstractAndConcrete ==
    /\ fmLast.op = "new" =>
          /\ fmLast.cls \in {"Vehicle", "VehicleFactory"} =>
                fmLast.thrown = AbstractError /\ fmLast.ret = 0
          /\ fmLast.cls \in {"Car", "Bike", "CarFactory", "BikeFactory"} =>
                /\ fmLast.thrown = NoError
                /\ fmLast.ret = Len(objects)
                /\ objects[fmLast.ret] = fmLast.cls
    /\ fmLast.op = "createVehicle" =>
          /\ fmLast.thrown = NoError
          /\ fmLast.ret = Len(objects)
          /\ fmLast.cls = "CarFactory" =>
                GetType(objects[fmLast.ret]) = [thrown |-> NoError, ret |-> "Car"]
          /\ fmLast.cls = "BikeFactory" =>
                GetType(objects[fmLast.ret]) = [thrown |-> NoError, ret |-> "Bike"]

C5_Witness ==
    /\ fmLast.op = "createVehicle"
    /\ fmLast.cls = "CarFactory"
    /\ fmLast.ret > 0
    /\ objects[fmLast.ret] = "Car"

ProxyInvalidCall ==
    proxyLast.op \in {"deposit", "withdraw"} /\ proxyLast.amount <= 0

\* C6 as stated: an amount <= 0 passed to BankAccountProxy.deposit or withdraw
\* makes the call throw an error.
C6_InvalidAmountThrows ==
    ProxyInvalidCall => proxyLast.thrown # NoError

\* C6 amended: an amount <= 0 passed to BankAccountProxy.deposit or withdraw
\* throws nothing: "Proxy: Invalid amount" is logged, the real account is not
\* called and the balance is unchanged.
C6_InvalidAmountLoggedNotThrown ==
    ProxyInvalidCall =>
      /\ proxyLast.thrown = NoError
      /\ proxyLast.log = "Proxy: Invalid amount"
      /\ ~proxyLast.called
      /\ realBalance = proxyLast.before

\* the driver: deposit(-50) at balance 150
C6_Witness ==
    /\ proxyLast.op = "deposit"
    /\ proxyLast.amount = -50
    /\ proxyLast.before = 150

CashPaid ==
    \/ stratLast.op = "pay"
    \/ stratLast.op = "checkout" /\ stratLast.strategy = "cash"

\* C7: CashStrategy.pay(amount) with amount > cashAmount throws "Insufficient
\* cash amount" and leaves cashAmount unchanged, also through
\* ShoppingCart.checkout(); with 0 <= amount <= cashAmount it lowers cashAmount
\* by exactly amount; while only non-negative amounts are paid cashAmount never
\* drops below zero.
C7_CashNeverOverspent ==
    /\ (CashPaid /\ stratLast.amount > stratLast.before) =>
          /\ stratLast.thrown = InsufficientCash
          /\ cashAmount = stratLast.before
    /\ (CashPaid /\ 0 <= stratLast.amount /\ stratLast.amount <= stratLast.before) =>
          /\ stratLast.thrown = NoError
          /\ cashAmount = stratLast.before - stratLast.amount
    /\ (~negativePaid /\ openingCash >= 0) => cashAmount >= 0
    /\ (~negativePaid /\ openingCash < 0) => cashAmount = openingCash

\* a checkout in cash of more than what is left, after an earlier payment
C7_Witness ==
    /\ stratLast.op = "checkout"
    /\ stratLast.strategy = "cash"
    /\ stratLast.amount > stratLast.before
    /\ stratLast.before < openingCash
    /\ stratLast.thrown = InsufficientCash

\* C8: under any deposit and withdraw calls on the proxy the balance of the
\* RealBankAccount is never negative, and no withdrawal larger than the
\* balance is carried out.
C8_BalanceNeverNegative ==
    /\ realBalance >= 0
    /\ (proxyLast.op = "withdraw" /\ proxyLast.carried) =>
          /\ proxyLast.amount <= proxyLast.before
          /\ realBalance = proxyLast.before - proxyLast.amount

\* a withdrawal within the limit but above the balance
C8_Witness ==
    /\ proxyLast.op = "withdraw"
    /\ 0 < proxyLast.amount /\ proxyLast.amount <= WithdrawLimit
    /\ proxyLast.amount > proxyLast.before
    /\ ~proxyLast.carried
    /\ realBalance = proxyLast.before

\* C9: BankAccount.withdraw(amount) with amount above the balance is carried
\* out and leaves a negative balance.
C9_DirectWithdrawOverdraws ==
    (bankLast.op = "withdraw" /\ bankLast.amount > bankLast.before) =>
      /\ balance = bankLast.before - bankLast.amount
      /\ balance < 0

\* C10: every getInstance() and every new Database() yields the same object,
\* at most one Database exists, and Database.instance never changes once set.
C10_SingleInstance ==
    /\ \A i, j \in 1..Len(dbRefs) : dbRefs[i].obj = dbRefs[j].obj
    /\ \A i \in 1..Len(dbRefs) : dbRefs[i].obj = dbInstance
    /\ Len(dbHeap) <= 1
    /\ Cardinality(dbSeen) <= 1

C10_Witness ==
    /\ Len(dbRefs) >= 3
    /\ dbRefs[1].via = "new"
    /\ \E i \in 1..Len(dbRefs) : dbRefs[i].via = "getInstance"
    /\ \E i \in 2..Len(dbRefs) : dbRefs[i].via = "new"

Updates(o) == Cardinality({i \in 1..Len(delivered) : delivered[i].who = o})

C12_QueryNeedsConnect ==
    /\ dbLast.op = "query" =>
          /\ dbLast.thrown = NoError <=> dbConnects > 0
          /\ dbConnects = 0 => dbLast.thrown = NotConnected
    /\ dbConnects > 0 =>
          \A i \in 1..Len(dbRefs) : dbHeap[dbRefs[i].obj].connected
    /\ \A k \in 1..Len(dbPrev) : dbPrev[k].connected => dbHeap[k].connected
    /\ (dbLast.op = "connect" /\ dbConnects = 2) =>
          /\ dbHeap = dbPrev
          /\ dbLast.log = "Already connected to database"

\* a query through a constructed reference after connect() was called twice
C12_Witness ==
    /\ dbLast.op = "query"
    /\ dbLast.thrown = NoError
    /\ dbConnects = 2
    /\ dbRefs[dbLast.ref].via = "new"
    /\ dbRefs[1].via = "getInstance"

RECURSIVE SumOver(_, _)
SumOver(f, S) ==
    IF S = {} THEN 0
    ELSE LET x == CHOOSE y \in S : TRUE IN f[x] + SumOver(f, S \ {x})

\* C14: detach(o) removes exactly one entry, the first occurrence of o, keeps
\* the other entries in their order, and changes nothing when o is not in the
\* list; attach(o) appends o, also when o is in the list already; the list
\* holds the standing attachments oldest first, and its length is the number
\* of attach calls minus the number of detach calls that found their observer.
C14_AttachAppendsDetachRemovesFirst ==
    /\ obsLast.op = "attach" =>
          /\ Len(observers) = Len(obsPrev) + 1
          /\ observers[Len(observers)] = obsLast.who
          /\ \A i \in 1..Len(obsPrev) : observers[i] = obsPrev[i]
    /\ obsLast.op = "detach" =>
          IF \A i \in 1..Len(obsPrev) : obsPrev[i] # obsLast.who
          THEN observers = obsPrev
          ELSE \E k \in 1..Len(obsPrev) :
                 /\ obsPrev[k] = obsLast.who
                 /\ \A j \in 1..(k - 1) : obsPrev[j] # obsLast.who
                 /\ Len(observers) = Len(obsPrev) - 1
                 /\ \A i \in 1..Len(observers) :
                       observers[i] = IF i < k THEN obsPrev[i] ELSE obsPrev[i + 1]
    /\ observers = attachments
    /\ Len(observers) = SumOver(outstanding, ObserverSet)

\* a detach of an observer attached twice, with another observer in between
C14_Witness ==
    /\ obsLast.op = "detach"
    /\ Len(observers) = Len(obsPrev) - 1
    /\ \E i, j, l \in 1..Len(obsPrev) :
          /\ i < j /\ j < l
          /\ obsPrev[i] = obsLast.who
          /\ obsPrev[j] # obsLast.who
          /\ obsPrev[l] = obsLast.who

====
